---- MODULE Spec2Model ----
(***************************************************************************)
(* Metal_gui, the main window of Qiskit Metal                              *)
(* (src/qiskit_metal/_gui/main_window.py), as a state machine.             *)
(*                                                                         *)
(* The window holds references (to a circuit, to the circuit's OBJECTS     *)
(* mapping, to a DEFAULT_OPTIONS mapping, to three tree widgets and a      *)
(* canvas) and forwards user actions to collaborators.  A reference is a   *)
(* pair <<kind, id>>; two references are the same object iff the pairs     *)
(* are equal.  Every handler is a function from the window record and the  *)
(* set F of collaborator calls that raise in this run to a result          *)
(* [g, trace, raised]: the window afterwards, the calls made in order,     *)
(* and whether an exception leaves the handler.                            *)
(***************************************************************************)
EXTENDS Integers, Sequences, FiniteSets

MaxWin == 2      \* windows constructed in one process
MaxCirc == 2     \* circuit objects
MaxText == 1     \* distinct non-empty texts a dialog can return
MaxFaults == 1   \* collaborator calls that raise within one handler run
MaxPre == 1      \* handlers on the Metal logger before any window
MaxButtons == 1  \* buttons added to a window's toolbar after its construction

Windows == 1..MaxWin
Circuits == 1..MaxCirc
Texts == 1..MaxText            \* 0 is the empty string of a cancelled dialog
Primary == {w \in Windows : \A v \in Windows : w <= v}

VARIABLES gui, handlers, handlers0, excepthook, last
vars == <<gui, handlers, handlers0, excepthook, last>>

---------------------------------------------------------------------------
(* References *)
None == <<"None", 0>>
CircOBJECTS(c) == <<"circ.OBJECTS", c>>
CircParams(c) == <<"circ.params", c>>
GlobalDefaultOptions == <<"draw_functions.DEFAULT_OPTIONS", 0>>
\* a mapping the caller supplies that is no circuit's OBJECTS and not the
\* process-wide DEFAULT_OPTIONS
Dicts == {<<"dict", 0>>}
NoArg == <<"", 0>>

(* One entry of a handler's trace: a collaborator call or a log record. *)
Ev(fn, arg) == [fn |-> fn, arg |-> arg, circ |-> 0]
\* a call that is handed, or made on, circuit c
EvOn(fn, arg, c) == [fn |-> fn, arg |-> arg, circ |-> c]
Start(g) == [g |-> g, trace |-> <<>>, raised |-> FALSE]
\* one collaborator call; it raises iff it is in F
Do(g, fn, arg, F) == [g |-> g, trace |-> <<Ev(fn, arg)>>, raised |-> fn \in F]
DoOn(g, fn, arg, c, F) ==
    [g |-> g, trace |-> <<EvOn(fn, arg, c)>>, raised |-> fn \in F]
\* sequencing: x runs after r unless r raised
Then(r, x) ==
    IF r.raised THEN r
    ELSE [g |-> x.g, trace |-> r.trace \o x.trace, raised |-> x.raised]

\* the sets of at most n of the calls in points
RECURSIVE AtMost(_, _)
AtMost(points, n) ==
    IF n = 0 THEN {{}}
    ELSE LET fewer == AtMost(points, n - 1)
         IN fewer \cup {F \cup {p} : F \in fewer, p \in points}
FaultSets(points) == AtMost(points, MaxFaults)
Has(trace, fn) == \E i \in 1..Len(trace) : trace[i].fn = fn
Index(trace, fn) == CHOOSE i \in 1..Len(trace) : trace[i].fn = fn
Count(trace, fn) == Cardinality({i \in 1..Len(trace) : trace[i].fn = fn})

NoWindow ==
    [status |-> "none", circ |-> 0, OBJECTS |-> None, DEFAULT_OPTIONS |-> None,
     tree |-> None, tree_def_ops |-> None, tree_circ_ops |-> None,
     canvasVisible |-> FALSE, tools |-> {}, toolbar |-> <<>>]

---------------------------------------------------------------------------
(* Logging set-up and tear-down (process-wide state) *)

PreHandler(k) == <<"logging.Handler", k>>
\* self._log_handler = Logging_Hander_for_Log_Widget('Metal', self)
WinHandler(w) == <<"Logging_Hander_for_Log_Widget", w>>

\* _setup_logging: logger.addHandler(self._log_handler), and
\* sys.excepthook = excepthook when catch_exceptions (the default).
\* hs: logger.handlers, hook: sys.excepthook (0: the interpreter's own).
\* the hook is built but never installed
SetupLogging_nohook(w, hs, hook, catch_exceptions) ==
    [handlers |-> IF \E i \in 1..Len(hs) : hs[i] = WinHandler(w)
                  THEN hs ELSE Append(hs, WinHandler(w)),
     excepthook |-> hook]

SetupLogging(w, hs, hook, catch_exceptions) ==
    [handlers |-> IF \E i \in 1..Len(hs) : hs[i] = WinHandler(w)
                  THEN hs ELSE Append(hs, WinHandler(w)),
     excepthook |-> IF catch_exceptions THEN w ELSE hook]

RemoveAt(hs, i) == SubSeq(hs, 1, i - 1) \o SubSeq(hs, i + 1, Len(hs))

\* _logging_remove_handler(handler, logger_):
\*     for i, handler in enumerate(logger_.handlers):
\*         if handler is handler: logger_.handlers.pop(i); break
\* The loop variable is named like the parameter, so the test compares each
\* element with itself and the parameter is never read.
LoggingRemoveHandler(handler, hs) ==
    LET hit == {i \in 1..Len(hs) : hs[i] = hs[i]}
    IN IF hit = {} THEN hs
       ELSE RemoveAt(hs, CHOOSE i \in hit : \A j \in hit : i <= j)

---------------------------------------------------------------------------
(* The decorator of the window's slots *)

\* @catch_exception_slot_pyqt(): an exception leaving the slot is caught
\* and its traceback logged; the slot returns normally.
CatchExceptionSlot(r, slot) ==
    IF r.raised
    THEN [r EXCEPT !.raised = FALSE,
                   !.trace = Append(@, Ev("catch_exception_slot_pyqt.traceback",
                                          <<slot, 0>>))]
    ELSE r

---------------------------------------------------------------------------
(* Drawing and refreshing *)

\* an overriding re_draw_func that rescales: it returns another mapping
re_draw_func_scaled(x) == <<"scaled", x[2]>>

re_draw_func(x) == x

\* Calls into the repository's own collaborators (the drawing utilities, the
\* circuit, the trees' rebuild, save/load, the object classes) may raise;
\* calls into the toolkits (Qt widgets and dialogs, the matplotlib canvas and
\* figure) are taken to return.
RedrawFaults == {"ax_draw.clear_me", "draw_all_objects", "plot_simple_gui_style"}
RefreshFaults ==
    RedrawFaults \cup {"tree.rebuild", "tree_def_ops.rebuild", "tree_circ_ops.rebuild"}
NoFaults == {{}}
RedrawFaultSets == FaultSets(RedrawFaults)
RefreshFaultSets == FaultSets(RefreshFaults)
\* the faults of `call` followed by refresh_all
CallAndRefreshFaultSets(call) == FaultSets(RefreshFaults \cup {call})
RemakeFaultSets == FaultSets(RedrawFaults \cup {"circ.make_all_objects"})
ConnectorsFaultSets == FaultSets({"circ.plot_connectors"})
ClearFaultSets == CallAndRefreshFaultSets("circ.clear_all_objects")
OpenFaultSets == CallAndRefreshFaultSets("load_metal")
CreateFaultSets == CallAndRefreshFaultSets("metal_class")

\* try: draw_all_objects(...)  except Exception: self.logger.error(traceback)
DrawAllObjectsGuarded(g, F) ==
    LET d == Do(g, "draw_all_objects", re_draw_func(g.OBJECTS), F)
    IN IF d.raised
       THEN [g |-> g,
             trace |-> Append(d.trace, Ev("logger.error", <<"traceback", 0>>)),
             raised |-> FALSE]
       ELSE d

re_draw_body(g, F) ==
    LET r1 == Do(g, "fig_window.setStatusTip", <<"Redrawing", 0>>, {})
        r2 == Then(r1, Do([r1.g EXCEPT !.canvasVisible = FALSE], "canvas.hide", NoArg, {}))
        r3 == Then(r2, Do(r2.g, "ax_draw.clear_me", NoArg, F))
        r4 == Then(r3, DrawAllObjectsGuarded(r3.g, F))
        r5 == Then(r4, Do(r4.g, "plot_simple_gui_style", NoArg, F))
        r6 == Then(r5, Do([r5.g EXCEPT !.canvasVisible = TRUE], "canvas.show", NoArg, {}))
        r7 == Then(r6, Do(r6.g, "canvas.draw", NoArg, F))
    IN Then(r7, Do(r7.g, "fig_window.setStatusTip", <<"Redrawing:DONE", 0>>, {}))

re_draw(g, F) == CatchExceptionSlot(re_draw_body(g, F), "re_draw")

refresh_tree(g, F) ==
    CatchExceptionSlot(Do(g, "tree.rebuild", g.tree, F), "refresh_tree")

refresh_tree_default_options(g, F) ==
    CatchExceptionSlot(Do(g, "tree_def_ops.rebuild", g.tree_def_ops, F),
                       "refresh_tree_default_options")

refresh_all_body(g, F) ==
    LET r1 == re_draw(g, F)
        r2 == Then(r1, refresh_tree(r1.g, F))
        r3 == Then(r2, refresh_tree_default_options(r2.g, F))
    IN Then(r3, Do(r3.g, "tree_circ_ops.rebuild", r3.g.tree_circ_ops, F))

refresh_all(g, F) == CatchExceptionSlot(refresh_all_body(g, F), "refresh_all")

remake_all_body(g, F) ==
    LET r1 == Do(g, "logger.info", <<"Remaking all Metal objects from options", 0>>, {})
        r2 == Then(r1, DoOn(r1.g, "circ.make_all_objects", NoArg, r1.g.circ, F))
    IN Then(r2, re_draw(r2.g, F))

remake_all(g, F) == CatchExceptionSlot(remake_all_body(g, F), "remake_all")

draw_connectors_body(g, F) ==
    LET r1 == DoOn(g, "circ.plot_connectors", NoArg, g.circ, F)
    IN Then(r1, Do(r1.g, "canvas.draw", NoArg, F))

draw_connectors(g, F) == CatchExceptionSlot(draw_connectors_body(g, F), "draw_connectors")

\* not decorated
fig_tight_layout(g, F) ==
    LET r1 == Do(g, "fig_draw.tight_layout", NoArg, F)
    IN Then(r1, Do(r1.g, "canvas.draw", NoArg, F))

---------------------------------------------------------------------------
(* The mappings the window holds *)

\* set_OBJECTS without the update of the object tree
set_OBJECTS_notree(g, OBJECTS) ==
    LET o == IF OBJECTS = None THEN CircOBJECTS(g.circ) ELSE OBJECTS
    IN Start([g EXCEPT !.OBJECTS = o])

\* hasattr(self, 'tree'): the tree exists once _setup_tree_view has run
set_OBJECTS(g, OBJECTS) ==
    LET o == IF OBJECTS = None THEN CircOBJECTS(g.circ) ELSE OBJECTS
        g1 == [g EXCEPT !.OBJECTS = o]
    IN IF g.tree # None
       THEN Do([g1 EXCEPT !.tree = o], "tree.change_content_dict", o, {})
       ELSE Start(g1)

set_DEFAULT_OPTIONS(g, DEFAULT_OPTIONS) ==
    LET d == IF DEFAULT_OPTIONS = None THEN GlobalDefaultOptions ELSE DEFAULT_OPTIONS
        g1 == [g EXCEPT !.DEFAULT_OPTIONS = d]
    IN IF g.tree_def_ops # None
       THEN Do([g1 EXCEPT !.tree_def_ops = d], "tree_def_ops.change_content_dict", d, {})
       ELSE Start(g1)

\* change_circ without its set_OBJECTS call
change_circ_keeps_OBJECTS(g, circ, F) ==
    LET r1 == Start([g EXCEPT !.circ = circ])
        r3 == Then(r1, Do([r1.g EXCEPT !.tree_circ_ops = CircParams(r1.g.circ)],
                          "tree_circ_ops.change_content_dict", CircParams(r1.g.circ), {}))
        r4 == Then(r3, Do(r3.g, "logger.info", <<"Changed circuit", 0>>, {}))
    IN Then(r4, refresh_all(r4.g, F))

change_circ(g, circ, F) ==
    LET r1 == Start([g EXCEPT !.circ = circ])
        r2 == Then(r1, set_OBJECTS(r1.g, CircOBJECTS(r1.g.circ)))
        r3 == Then(r2, Do([r2.g EXCEPT !.tree_circ_ops = CircParams(r2.g.circ)],
                          "tree_circ_ops.change_content_dict", CircParams(r2.g.circ), {}))
        r4 == Then(r3, Do(r3.g, "logger.info", <<"Changed circuit", 0>>, {}))
    IN Then(r4, refresh_all(r4.g, F))

---------------------------------------------------------------------------
(* Actions on the circuit and on files *)

\* clear_all_objects without the test of the answer
clear_all_objects_unasked(g, ret, F) ==
    LET r1 == Do(g, "QMessageBox.question", <<ret, 0>>, {})
        r2 == Then(r1, DoOn(r1.g, "circ.clear_all_objects", NoArg, r1.g.circ, F))
    IN Then(r2, refresh_all(r2.g, F))

clear_all_objects_body(g, ret, F) ==
    LET r1 == Do(g, "QMessageBox.question", <<ret, 0>>, {})
    IN IF ret = "Yes"
       THEN LET r2 == Then(r1, DoOn(r1.g, "circ.clear_all_objects", NoArg, r1.g.circ, F))
            IN Then(r2, refresh_all(r2.g, F))
       ELSE r1

clear_all_objects(g, ret, F) ==
    CatchExceptionSlot(clear_all_objects_body(g, ret, F), "clear_all_objects")

\* action_gds_export without the test of the filename
action_gds_export_unchecked(g, filename, F) ==
    LET r1 == Do(g, "QFileDialog.getSaveFileName", <<"text", filename>>, {})
    IN Then(r1, DoOn(r1.g, "circ.gds_draw_all", <<"text", filename>>, r1.g.circ, F))

\* filename 0 is the empty string: `if filename:` is filename # 0
action_gds_export_body(g, filename, F) ==
    LET r1 == Do(g, "QFileDialog.getSaveFileName", <<"text", filename>>, {})
    IN IF filename # 0
       THEN Then(r1, DoOn(r1.g, "circ.gds_draw_all", <<"text", filename>>, r1.g.circ, F))
       ELSE r1

action_gds_export(g, filename, F) ==
    CatchExceptionSlot(action_gds_export_body(g, filename, F), "action_gds_export")

action_save_metal_body(g, filename, F) ==
    LET r1 == Do(g, "QFileDialog.getSaveFileName", <<"text", filename>>, {})
    IN IF filename # 0
       THEN LET r2 == Then(r1, DoOn(r1.g, "save_metal", <<"text", filename>>, r1.g.circ, F))
            IN Then(r2, Do(r2.g, "logger.info", <<"Successfully save metal", filename>>, {}))
       ELSE r1

action_save_metal(g, filename, F) ==
    CatchExceptionSlot(action_save_metal_body(g, filename, F), "action_save_metal")

\* load_metal(filename): raises (nothing readable under that name), or
\* builds a circuit object, fresh, and returns it
load_metal(g, filename, fresh, F) ==
    Then(Do(g, "load_metal", <<"text", filename>>, F),
         DoOn(g, "load_metal.return", NoArg, fresh, {}))

action_open_metal_body(g, filename, fresh, F) ==
    LET r1 == Do(g, "QFileDialog.getOpenFileName", <<"text", filename>>, {})
    IN IF filename # 0
       THEN LET r2 == Then(r1, load_metal(r1.g, filename, fresh, F))
                r3 == Then(r2, change_circ(r2.g, fresh, F))
            IN Then(r3, Do(r3.g, "logger.info", <<"Successfully loaded file", filename>>, {}))
       ELSE r1

action_open_metal(g, filename, fresh, F) ==
    CatchExceptionSlot(action_open_metal_body(g, filename, fresh, F),
                       "action_open_metal")

\* the creation callback without its refresh_all call
create_metal_obj_norefresh(g, metal_class, result, name, F) ==
    LET r0 == Do(g, "Dialog_create_metal", <<metal_class, 0>>, {})
        r1 == Then(r0, Do(g, "Dialog_create_metal.get_params",
                          <<IF result THEN "accepted" ELSE "rejected", name>>, {}))
    IN IF result /\ name # 0
       THEN Then(r1, DoOn(r1.g, "metal_class", <<metal_class, name>>, r1.g.circ, F))
       ELSE r1

\* the creation callback without its test of the entered name
create_metal_obj_anyname(g, metal_class, result, name, F) ==
    LET r0 == Do(g, "Dialog_create_metal", <<metal_class, 0>>, {})
        r1 == Then(r0, Do(g, "Dialog_create_metal.get_params",
                          <<IF result THEN "accepted" ELSE "rejected", name>>, {}))
    IN IF result
       THEN LET r2 == Then(r1, DoOn(r1.g, "metal_class", <<metal_class, name>>, r1.g.circ, F))
            IN Then(r2, refresh_all(r2.g, F))
       ELSE r1

\* the callback add_metal_object builds for one class; not decorated.
\* form = Dialog_create_metal(self, metal_class)
\* result, my_args = form.get_params()
create_metal_obj(g, metal_class, result, name, F) ==
    LET r0 == Do(g, "Dialog_create_metal", <<metal_class, 0>>, {})
        r1 == Then(r0, Do(g, "Dialog_create_metal.get_params",
                          <<IF result THEN "accepted" ELSE "rejected", name>>, {}))
    IN IF result /\ name # 0
       THEN LET r2 == Then(r1, DoOn(r1.g, "metal_class", <<metal_class, name>>, r1.g.circ, F))
            IN Then(r2, refresh_all(r2.g, F))
       ELSE r1

---------------------------------------------------------------------------
(* Toolbar buttons that create objects *)

\* metal_class_name.split('.')[-1]
class_name_of(metal_class_name) == metal_class_name[Len(metal_class_name)]

\* the image add_metal_object hands to add_toolbar_icon:
\*     if not Path(img).is_file():
\*         img2 = self.imgs_path/'Metal_Object.png'
\*         if Path(img2).is_file(): img = img2
\* img: "file" (the class's _img exists), "missing" (it does not);
\* base: the base image exists
image_of(img, base) ==
    IF img = "file" THEN "_img"
    ELSE IF base THEN "Metal_Object.png" ELSE "_img"

\* the warnings logged on the way
image_warnings(g, img, base) ==
    IF img = "file" THEN Start(g)
    ELSE Then(Do(g, "logger.warning", <<"Could not locate image path", 0>>, {}),
              Do(g, "logger.warning",
                 <<IF base THEN "Replacing with image path"
                   ELSE "Could not even find base image path", 0>>, {}))

\* add_metal_object(toolbar, metal_class_name, tool_name=None); not decorated.
\* module: what importlib.import_module does: "module" (it returns the
\*     module), "ImportError", or "Exception" (the module's code raises
\*     anything else while it is imported);
\* found: getattr(module, class_name) returns the class;
\* img: "none" (the class has no _img attribute), "missing", "file";
\* tool_name: "" stands for None and the empty string (not tool_name).
\* The label of the button is computed from tool_name only and is left out.
add_metal_object(g, metal_class_name, tool_name, module, found, img, base) ==
    LET class_name == class_name_of(metal_class_name)
        False == Ev("add_metal_object.return", <<"False", 0>>)
        True == Ev("add_metal_object.return", <<"True", 0>>)
        r1 == Do(g, "importlib.import_module", <<metal_class_name, 0>>,
                 IF module = "Exception" THEN {"importlib.import_module"} ELSE {})
        r2 == Then(r1, Do(g, "getattr", <<class_name, 0>>, {}))
        tool == IF tool_name = "" THEN class_name ELSE tool_name
        \* img = ... if hasattr(metal_class, '_img') else None; Path(None)
        \* raises TypeError
        r3 == Then(r2, Do(g, "Path", <<img, 0>>, IF img = "none" THEN {"Path"} ELSE {}))
        r4 == Then(r3, image_warnings(g, img, base))
        button == [tool_name |-> tool, metal_class |-> class_name,
                   img |-> image_of(img, base)]
        g5 == [g EXCEPT !.toolbar = Append(@, button)]
        r5 == Then(r4, Do(g5, "add_toolbar_icon", <<tool, 0>>, {}))
        g6 == [g5 EXCEPT !.tools = @ \cup {tool}]
        r6 == Then(r5, Do(g6, "setattr", <<tool, 0>>, {}))
    IN IF module = "ImportError"
       THEN [r1 EXCEPT !.trace = @ \o <<Ev("logger.error", <<"Could not load object module", 0>>), False>>]
       ELSE IF module = "module" /\ ~found
       THEN [r2 EXCEPT !.trace = @ \o <<Ev("logger.error", <<"could not find/load class", 0>>), False>>]
       ELSE IF r6.raised THEN r6
       ELSE [r6 EXCEPT !.trace = @ \o <<True>>]

---------------------------------------------------------------------------
(* Construction *)

\* config.CREATE_METAL_CLASSES: the class paths of the buttons every window
\* gets; a path is the sequence of its dot-separated components
CREATE_METAL_CLASSES ==
    << <<"objects", "Metal_Transmon_Pocket">>, <<"objects", "Metal_cpw_connect">> >>

\* for metal_class in CREATE_METAL_CLASSES: self.add_metal_object(toolbar, metal_class)
\* the configured modules load, and their classes carry an image that exists
RECURSIVE setup_create_objects(_, _)
setup_create_objects(g, i) ==
    IF i > Len(CREATE_METAL_CLASSES) THEN g
    ELSE setup_create_objects(
             add_metal_object(g, CREATE_METAL_CLASSES[i], "", "module", TRUE,
                              "file", TRUE).g, i + 1)

\* __init__(circ, OBJECTS, DEFAULT_OPTIONS) up to self.show(); the trees are
\* built from the mappings the window holds at that point
Metal_gui_setup(circ, OBJECTS, DEFAULT_OPTIONS) ==
    LET g0 == [NoWindow EXCEPT !.status = "open", !.circ = circ]
        g1 == set_OBJECTS(g0, OBJECTS).g
        g2 == set_DEFAULT_OPTIONS(g1, DEFAULT_OPTIONS).g
        g3 == [g2 EXCEPT !.canvasVisible = TRUE]                 \* _setup_plot
        g4 == [g3 EXCEPT !.tree = g3.OBJECTS]                    \* _setup_tree_view
        g5 == [g4 EXCEPT !.tree_circ_ops = CircParams(g4.circ)]  \* _setup_tree_circ_options
        g6 == [g5 EXCEPT !.tree_def_ops = g5.DEFAULT_OPTIONS]    \* _setup_tree_default_options
    IN setup_create_objects(g6, 1)                               \* _setup_create_objects

\* ... self.show(); self.refresh_all(); self.raise_()
Metal_gui(circ, OBJECTS, DEFAULT_OPTIONS, F) ==
    refresh_all(Metal_gui_setup(circ, OBJECTS, DEFAULT_OPTIONS), F)

---------------------------------------------------------------------------
(* The state machine *)

Injective(q) == \A i, j \in 1..Len(q) : i # j => q[i] # q[j]
PreLists ==
    {q \in UNION {[1..n -> {PreHandler(k) : k \in 1..MaxPre}] : n \in 0..MaxPre} :
        Injective(q)}

Ran(op, w, r) == [op |-> op, win |-> w, trace |-> r.trace, raised |-> r.raised]

InitWith(pre) ==
    /\ gui = [w \in Windows |-> NoWindow]
    /\ handlers \in pre
    /\ handlers0 = handlers
    /\ excepthook = 0
    /\ last = [op |-> "start", win |-> 0, trace |-> <<>>, raised |-> FALSE]

\* a process whose Metal logger has no handler yet
Init == InitWith({<<>>})
\* a process whose Metal logger may already have handlers
InitApp == InitWith(PreLists)

IsOpen(w) == gui[w].status = "open"

\* a handler that touches only window w
Window(w, op, r) ==
    /\ gui' = [gui EXCEPT ![w] = r.g]
    /\ last' = Ran(op, w, r)
    /\ UNCHANGED <<handlers, handlers0, excepthook>>

Construct(w, circ, OBJECTS, DEFAULT_OPTIONS, F) ==
    /\ gui[w].status = "none"
    /\ LET r == Metal_gui(circ, OBJECTS, DEFAULT_OPTIONS, F)
           s == SetupLogging(w, handlers, excepthook, TRUE)
       IN /\ gui' = [gui EXCEPT ![w] = r.g]
          /\ handlers' = s.handlers
          /\ excepthook' = s.excepthook
          /\ last' = Ran("__init__", w, r)
    /\ UNCHANGED handlers0

Call_Metal_gui(w) ==
    \E circ \in Circuits, D \in {None} \cup Dicts, F \in RefreshFaultSets :
        \E O \in {None} \cup Dicts \cup {CircOBJECTS(c) : c \in Circuits} :
            Construct(w, circ, O, D, F)

Call_Metal_gui_defaults(w) ==
    \E circ \in Circuits : Construct(w, circ, None, None, {})

\* closeEvent: try: _logging_remove_handler(self._log_handler, logger)
\*             finally: super().closeEvent(event)
Call_closeEvent(w) ==
    /\ IsOpen(w)
    /\ handlers' = LoggingRemoveHandler(WinHandler(w), handlers)
    /\ gui' = [gui EXCEPT ![w].status = "closed"]
    /\ last' = Ran("closeEvent", w, Start(gui[w]))
    /\ UNCHANGED <<handlers0, excepthook>>

\* the interpreter calls sys.excepthook(type, value, tb)
ExcTypes == {"Exception", "KeyboardInterrupt"}
excepthook_of(w, type) ==
    <<Ev("logger_window.log_message_to", <<"Errors", w>>),
      Ev("traceback.print_exception", <<type, 0>>)>>

UncaughtException ==
    \E type \in ExcTypes :
        /\ last' = [op |-> "sys.excepthook", win |-> excepthook, raised |-> FALSE,
                    trace |-> IF excepthook = 0
                              THEN <<Ev("sys.__excepthook__", <<type, 0>>)>>
                              ELSE excepthook_of(excepthook, type)]
        /\ UNCHANGED <<gui, handlers, handlers0, excepthook>>

Call_re_draw(w) ==
    /\ IsOpen(w)
    /\ \E F \in RedrawFaultSets : Window(w, "re_draw", re_draw(gui[w], F))

Call_refresh_tree(w) ==
    /\ IsOpen(w)
    /\ \E F \in FaultSets({"tree.rebuild"}) :
          Window(w, "refresh_tree", refresh_tree(gui[w], F))

Call_refresh_tree_default_options(w) ==
    /\ IsOpen(w)
    /\ \E F \in FaultSets({"tree_def_ops.rebuild"}) :
          Window(w, "refresh_tree_default_options",
                 refresh_tree_default_options(gui[w], F))

Call_refresh_all(w) ==
    /\ IsOpen(w)
    /\ \E F \in RefreshFaultSets :
          Window(w, "refresh_all", refresh_all(gui[w], F))

Call_remake_all(w) ==
    /\ IsOpen(w)
    /\ \E F \in RemakeFaultSets :
          Window(w, "remake_all", remake_all(gui[w], F))

Call_draw_connectors(w) ==
    /\ IsOpen(w)
    /\ \E F \in ConnectorsFaultSets :
          Window(w, "draw_connectors", draw_connectors(gui[w], F))

Call_fig_tight_layout(w) ==
    /\ IsOpen(w)
    /\ Window(w, "fig_tight_layout", fig_tight_layout(gui[w], {}))

Call_set_OBJECTS(w) ==
    /\ IsOpen(w)
    /\ \E O \in {None} \cup Dicts \cup {CircOBJECTS(c) : c \in Circuits} :
          Window(w, "set_OBJECTS", set_OBJECTS(gui[w], O))

Call_set_DEFAULT_OPTIONS(w) ==
    /\ IsOpen(w)
    /\ \E D \in {None} \cup Dicts :
          Window(w, "set_DEFAULT_OPTIONS", set_DEFAULT_OPTIONS(gui[w], D))

Call_change_circ(w) ==
    /\ IsOpen(w)
    /\ \E circ \in Circuits, F \in RefreshFaultSets :
          Window(w, "change_circ", change_circ(gui[w], circ, F))

Call_clear_all_objects(w) ==
    /\ IsOpen(w)
    /\ \E ret \in {"Yes", "No"} :
        \E F \in (IF ret = "Yes" THEN ClearFaultSets ELSE NoFaults) :
          Window(w, "clear_all_objects", clear_all_objects(gui[w], ret, F))

Call_action_gds_export(w) ==
    /\ IsOpen(w)
    /\ \E filename \in {0} \cup Texts :
        \E F \in (IF filename # 0 THEN FaultSets({"circ.gds_draw_all"}) ELSE NoFaults) :
          Window(w, "action_gds_export", action_gds_export(gui[w], filename, F))

Call_action_save_metal(w) ==
    /\ IsOpen(w)
    /\ \E filename \in {0} \cup Texts :
        \E F \in (IF filename # 0 THEN FaultSets({"save_metal"}) ELSE NoFaults) :
          Window(w, "action_save_metal", action_save_metal(gui[w], filename, F))

\* faults: the sets of calls that may raise in a run that reaches load_metal
OpenWith(w, faults) ==
    /\ IsOpen(w)
    /\ \E filename \in {0} \cup Texts, fresh \in Circuits \ {gui[w].circ} :
          \E F \in (IF filename # 0 THEN faults ELSE NoFaults) :
              Window(w, "action_open_metal",
                     action_open_metal(gui[w], filename, fresh, F))

Call_action_open_metal(w) == OpenWith(w, OpenFaultSets)

\* a click on the i-th create button of the toolbar
\* faults: the sets of calls that may raise in a run that reaches metal_class
CreateWith(w, faults) ==
    /\ IsOpen(w)
    /\ \E i \in 1..Len(gui[w].toolbar), result \in BOOLEAN :
        \E name \in (IF result THEN {0} \cup Texts ELSE {0}) :
          \E F \in (IF result /\ name # 0 THEN faults ELSE NoFaults) :
              Window(w, "create_metal_obj",
                     create_metal_obj(gui[w], gui[w].toolbar[i].metal_class, result, name, F))

Call_create_metal_obj(w) == CreateWith(w, CreateFaultSets)

\* the class paths and tool names add_metal_object is called with
ClassPaths == {<<"objects", "Metal_Transmon_Pocket">>, <<"my_objects", "Metal_Qubit">>}
ToolNames == {"", "my_tool"}

Call_add_metal_object(w) ==
    /\ IsOpen(w)
    /\ Len(gui[w].toolbar) < Len(CREATE_METAL_CLASSES) + MaxButtons
    /\ \E metal_class_name \in ClassPaths, tool_name \in ToolNames,
          module \in {"module", "ImportError", "Exception"} :
        \E found \in (IF module = "module" THEN BOOLEAN ELSE {FALSE}) :
          \E img \in (IF found THEN {"none", "missing", "file"} ELSE {"none"}) :
            \E base \in (IF img = "missing" THEN BOOLEAN ELSE {TRUE}) :
              Window(w, "add_metal_object",
                     add_metal_object(gui[w], metal_class_name, tool_name,
                                      module, found, img, base))

Next ==
    \E w \in Primary :
        \/ Call_Metal_gui(w)
        \/ Call_re_draw(w)
        \/ Call_refresh_tree(w)
        \/ Call_refresh_tree_default_options(w)
        \/ Call_refresh_all(w)
        \/ Call_remake_all(w)
        \/ Call_draw_connectors(w)
        \/ Call_fig_tight_layout(w)
        \/ Call_set_OBJECTS(w)
        \/ Call_set_DEFAULT_OPTIONS(w)
        \/ Call_change_circ(w)
        \/ Call_clear_all_objects(w)
        \/ Call_action_gds_export(w)
        \/ Call_action_save_metal(w)
        \/ Call_action_open_metal(w)
        \/ Call_create_metal_obj(w)

Spec == Init /\ [][Next]_vars

\* several windows in one process, each constructed with default arguments
NextApp ==
    \/ \E w \in Windows : Call_Metal_gui_defaults(w)
    \/ \E w \in Windows : Call_closeEvent(w)
    \/ UncaughtException

SpecApp == InitApp /\ [][NextApp]_vars

\* one window, its toolbar of create buttons and the circuit they act on;
\* of the collaborators only the object's class and load_metal may raise
Click_create_button(w) == CreateWith(w, FaultSets({"metal_class"}))
Load_circuit(w) == OpenWith(w, FaultSets({"load_metal"}))

NextTools ==
    \E w \in Primary :
        \/ Call_Metal_gui_defaults(w)
        \/ Call_add_metal_object(w)
        \/ Click_create_button(w)
        \/ Load_circuit(w)

SpecTools == Init /\ [][NextTools]_vars

---------------------------------------------------------------------------
(* Reading a handler's trace *)

Caught(fn) == fn = "catch_exception_slot_pyqt.traceback"
\* the call fn was made and returned: it is not the call the run ended on
\* with an exception
Returned(l, fn) ==
    /\ Has(l.trace, fn)
    /\ LET i == Index(l.trace, fn)
       IN IF i = Len(l.trace) THEN ~l.raised ELSE ~Caught(l.trace[i + 1].fn)
CalledAfter(trace, i, fn) == \E j \in (i + 1)..Len(trace) : trace[j].fn = fn
CalledBefore(trace, i, fn) == \E j \in 1..(i - 1) : trace[j].fn = fn
RefreshCalls == {"canvas.hide", "tree.rebuild", "tree_def_ops.rebuild", "tree_circ_ops.rebuild"}
\* the answer of the dialog a handler opens first
Answer(l) == l.trace[1].arg
Win(l) == gui[l.win]

---------------------------------------------------------------------------
(* C1 *)

WiredCallbacks ==
    {"re_draw", "refresh_all", "remake_all", "draw_connectors", "clear_all_objects",
     "action_gds_export", "action_save_metal", "action_open_metal", "create_metal_obj"}

\* C1: a failure inside a callback wired to a user action is caught at the
\* callback's boundary: no exception leaves re_draw, refresh_all, remake_all,
\* draw_connectors, clear_all_objects, action_gds_export, action_save_metal,
\* action_open_metal or a create_<tool_name> callback.
C1_NoFailureLeavesACallback ==
    last.op \in WiredCallbacks => ~last.raised

---------------------------------------------------------------------------
(* C2 *)

Constructed == {w \in Windows : gui[w].status # "none"}

\* C2 as stated: once a window has been constructed, sys.excepthook is that
\* window's hook at every later point of the run.
C2_HookOfEveryConstructedWindow ==
    \A w \in Constructed : excepthook = w

\* C2, amended: sys.excepthook is the hook of the window constructed last:
\* constructing a window installs its hook, nothing else changes the hook
\* (closing a window does not), and the hook in place writes the traceback,
\* whatever the exception type, to the 'Errors' log of its own window's
\* logging widget.
C2_HookOfLatestWindow ==
    [][/\ \A w \in Windows :
            gui[w].status = "none" /\ gui'[w].status # "none" => excepthook' = w
       /\ (\A w \in Windows : gui[w].status = "none" => gui'[w].status = "none")
            => excepthook' = excepthook
       /\ last'.op = "sys.excepthook" /\ excepthook # 0
            => /\ last'.win = excepthook
               /\ last'.trace[1] = Ev("logger_window.log_message_to", <<"Errors", excepthook>>)
               /\ last'.trace[2].fn = "traceback.print_exception"
      ]_vars

\* two windows are up and an uncaught exception went to the later one's panel
C2_Witness ==
    /\ Cardinality(Constructed) >= 2
    /\ last.op = "sys.excepthook"
    /\ last.win = excepthook
    /\ excepthook # 0

---------------------------------------------------------------------------
(* C3 *)

\* C3: in every reachable state the window's OBJECTS is the OBJECTS mapping
\* of the circuit the window holds.
C3_ObjectsIsCircuitsObjects ==
    \A w \in Windows : IsOpen(w) => gui[w].OBJECTS = CircOBJECTS(gui[w].circ)

---------------------------------------------------------------------------
(* C4 *)

\* the circuit object load_metal returned in the handler run l
Loaded(l) == l.trace[Index(l.trace, "load_metal.return")].circ
\* the place of the first call of fn after the i-th call, 0 if there is none
FirstAfter(trace, i, fn) ==
    LET later == {j \in (i + 1)..Len(trace) : trace[j].fn = fn}
    IN IF later = {} THEN 0 ELSE CHOOSE j \in later : \A k \in later : j <= k
\* refresh_all ran after the i-th call: the plot's redraw was started and the
\* three trees were told to rebuild, in the order of the code
RefreshedAfter(trace, i) ==
    LET a == FirstAfter(trace, i, "canvas.hide")
        b == IF a = 0 THEN 0 ELSE FirstAfter(trace, a, "tree.rebuild")
        c == IF b = 0 THEN 0 ELSE FirstAfter(trace, b, "tree_def_ops.rebuild")
        d == IF c = 0 THEN 0 ELSE FirstAfter(trace, c, "tree_circ_ops.rebuild")
    IN d # 0
\* the mappings the panels were asked to show in the run l
Shown(l, fn) == {l.trace[i].arg : i \in {j \in 1..Len(l.trace) : l.trace[j].fn = fn}}

\* C4: when action_open_metal is given a filename and load_metal returns,
\* the window afterwards holds the returned circuit, its OBJECTS is that
\* circuit's OBJECTS, the object tree and the circuit-properties tree show
\* that circuit's OBJECTS and params, every panel was asked to refresh after
\* the change (and drew, or rebuilt from, the new circuit's mappings), and
\* neither the window nor a tree refers to the circuit held before.
C4_LoadReplacesTheCircuit ==
    [][last'.op = "action_open_metal" /\ Has(last'.trace, "load_metal.return")
         => LET w == last'.win
                c == Loaded(last')
                old == gui[w].circ
                g == gui'[w]
            IN /\ g.circ = c
               /\ g.OBJECTS = CircOBJECTS(c)
               /\ g.tree = CircOBJECTS(c)
               /\ g.tree_circ_ops = CircParams(c)
               /\ RefreshedAfter(last'.trace, Index(last'.trace, "load_metal.return"))
               /\ Shown(last', "draw_all_objects") \subseteq {CircOBJECTS(c)}
               /\ Shown(last', "tree.rebuild") = {CircOBJECTS(c)}
               /\ Shown(last', "tree_circ_ops.rebuild") = {CircParams(c)}
               /\ old # c
               /\ {g.OBJECTS, g.tree, g.tree_def_ops, g.tree_circ_ops}
                     \cap {CircOBJECTS(old), CircParams(old)} = {}
               /\ ~last'.raised
      ]_vars

\* a load went through: the window holds the circuit load_metal returned,
\* after having held another one whose OBJECTS it no longer shows
C4_Witness ==
    /\ last.op = "action_open_metal"
    /\ Has(last.trace, "load_metal.return")
    /\ Answer(last)[2] # 0
    /\ Win(last).circ = Loaded(last)
    /\ Win(last).tree = CircOBJECTS(Loaded(last))

---------------------------------------------------------------------------
(* C5 *)

\* the collaborator through which a handler changes the circuit model
Collaborator(op) ==
    CASE op = "create_metal_obj" -> "metal_class"
      [] op = "remake_all" -> "circ.make_all_objects"
      [] op = "clear_all_objects" -> "circ.clear_all_objects"
      [] op = "action_open_metal" -> "load_metal"
ChangingOps == {"create_metal_obj", "remake_all", "clear_all_objects", "action_open_metal"}
ChangedModel(l) == l.op \in ChangingOps /\ Returned(l, Collaborator(l.op))

\* C5 as stated: every action that changed the circuit model has, when it
\* returns, asked the plot, the object tree and the circuit-properties tree
\* to refresh, after the collaborator call.
C5_EveryChangeRefreshesEveryPanel ==
    ChangedModel(last) =>
        LET i == Index(last.trace, Collaborator(last.op))
        IN /\ CalledAfter(last.trace, i, "canvas.hide")
           /\ CalledAfter(last.trace, i, "tree.rebuild")
           /\ CalledAfter(last.trace, i, "tree_circ_ops.rebuild")

\* C5, amended: create object, clear all and load circuit call the
\* collaborator first and then, before returning, refresh_all: the plot, the
\* object tree, the default-options tree and the circuit-properties tree are
\* asked to refresh.  remake_all calls circ.make_all_objects and then only
\* re_draw: the plot is redrawn and no tree is rebuilt.  No refresh is asked
\* for before the collaborator call.
C5_ChangeThenRefresh ==
    ChangedModel(last) =>
        LET i == Index(last.trace, Collaborator(last.op))
        IN /\ \A fn \in RefreshCalls : ~CalledBefore(last.trace, i, fn)
           /\ IF last.op = "remake_all"
              THEN /\ CalledAfter(last.trace, i, "canvas.hide")
                   /\ \A fn \in RefreshCalls \ {"canvas.hide"} : ~Has(last.trace, fn)
              ELSE RefreshedAfter(last.trace, i)

\* remake_all remade the objects and returned with the plot redrawn
C5_Witness ==
    /\ last.op = "remake_all"
    /\ ChangedModel(last)
    /\ Has(last.trace, "canvas.show")

---------------------------------------------------------------------------
(* C6 *)

DisplayOps ==
    {"re_draw", "refresh_tree", "refresh_tree_default_options", "refresh_all",
     "draw_connectors", "fig_tight_layout", "action_gds_export", "action_save_metal"}

\* C6: the display-only operations leave the window's circ, OBJECTS and
\* DEFAULT_OPTIONS references as they were, and what re_draw hands to the
\* drawing routine is the window's OBJECTS itself.
C6_DisplayOnly ==
    [][last'.op \in DisplayOps
         => LET w == last'.win
            IN /\ gui'[w].circ = gui[w].circ
               /\ gui'[w].OBJECTS = gui[w].OBJECTS
               /\ gui'[w].DEFAULT_OPTIONS = gui[w].DEFAULT_OPTIONS
               /\ Shown(last', "draw_all_objects") \subseteq {gui[w].OBJECTS}
      ]_vars

\* a redraw drew a mapping the caller supplied
C6_Witness ==
    /\ last.op = "re_draw"
    /\ Shown(last, "draw_all_objects") = {Win(last).OBJECTS}
    /\ Win(last).OBJECTS \in Dicts
    /\ Win(last).DEFAULT_OPTIONS \in Dicts

---------------------------------------------------------------------------
(* C7 *)

FileOps == {"action_gds_export", "action_save_metal", "action_open_metal"}
FileCalls == {"circ.gds_draw_all", "save_metal", "load_metal"}
FileCall(op) ==
    CASE op = "action_gds_export" -> "circ.gds_draw_all"
      [] op = "action_save_metal" -> "save_metal"
      [] op = "action_open_metal" -> "load_metal"

\* C7: a file action whose dialog returned the empty filename makes no call
\* and leaves the window (circ, OBJECTS, trees) as it was; with a filename it
\* calls its own collaborator, and no other file collaborator, exactly once,
\* with that filename, gds_draw_all and save_metal on the window's circuit.
C7_FileActions ==
    [][last'.op \in FileOps
         => LET w == last'.win
                t == last'.trace
                filename == t[1].arg[2]
                own == FileCall(last'.op)
            IN IF filename = 0
               THEN /\ Len(t) = 1
                    /\ gui'[w] = gui[w]
               ELSE /\ Count(t, own) = 1
                    /\ \A fn \in FileCalls \ {own} : Count(t, fn) = 0
                    /\ t[2].fn = own
                    /\ t[2].arg = <<"text", filename>>
                    /\ own # "load_metal" => t[2].circ = gui[w].circ /\ gui'[w] = gui[w]
      ]_vars

\* a cancelled load
C7_Witness ==
    /\ last.op = "action_open_metal"
    /\ Answer(last) = <<"text", 0>>
    /\ Len(last.trace) = 1

---------------------------------------------------------------------------
(* C8 *)

\* C8: once every window that was constructed has been closed, the Metal
\* logger's handler list is the list it had before the first window.
C8_ClosingRestoresTheHandlers ==
    (Constructed # {} /\ \A w \in Constructed : gui[w].status = "closed")
        => handlers = handlers0

---------------------------------------------------------------------------
(* C9 *)

\* C9: clear_all_objects asks first.  On an answer other than Yes it makes
\* no call and leaves the window as it was.  On Yes it calls
\* circ.clear_all_objects once, on the window's circuit, before anything
\* else, and refresh_all runs after it iff it returned.
C9_ClearAsksFirst ==
    [][last'.op = "clear_all_objects"
         => LET w == last'.win
                t == last'.trace
            IN /\ t[1].fn = "QMessageBox.question"
               /\ IF Answer(last') = <<"Yes", 0>>
                  THEN /\ Count(t, "circ.clear_all_objects") = 1
                       /\ t[2] = EvOn("circ.clear_all_objects", NoArg, gui[w].circ)
                       /\ RefreshedAfter(t, 2) <=> Returned(last', "circ.clear_all_objects")
                  ELSE /\ Len(t) = 1
                       /\ gui'[w] = gui[w]
      ]_vars

\* the user said Yes, the circuit was cleared and the panels refreshed
C9_Witness ==
    /\ last.op = "clear_all_objects"
    /\ Answer(last) = <<"Yes", 0>>
    /\ Returned(last, "circ.clear_all_objects")
    /\ RefreshedAfter(last.trace, 2)

---------------------------------------------------------------------------
(* C10 *)

\* C10: after every call of re_draw, whether or not a step of it failed, the
\* drawing canvas is visible.
C10_CanvasVisibleAfterReDraw ==
    last.op = "re_draw" => Win(last).canvasVisible

---------------------------------------------------------------------------
(* C11 *)

\* what add_metal_object returned, <<"", 0>> if it did not return
AddReturned(l) ==
    IF Has(l.trace, "add_metal_object.return")
    THEN l.trace[Index(l.trace, "add_metal_object.return")].arg
    ELSE NoArg
\* the image of the class could not be located: the class has none, or the
\* path is not a file
ImageNotLocated(l) ==
    /\ Has(l.trace, "Path")
    /\ l.trace[Index(l.trace, "Path")].arg[1] \in {"none", "missing"}

\* C11: add_metal_object never raises for a string class path.  If the
\* module cannot be imported or the class is not found, it logs an error,
\* returns False and registers nothing (the toolbar and the create_
\* attributes are as before).  Otherwise it adds exactly one toolbar button,
\* sets the attribute create_<tool_name> and returns True, and the button
\* carries the base image Metal_Object.png when the class's own image cannot
\* be located, including when the class has no _img attribute.
C11_AddMetalObjectNeverRaises ==
    [][last'.op = "add_metal_object"
         => LET w == last'.win
                t == last'.trace
            IN /\ ~last'.raised
               /\ IF Has(t, "logger.error")
                  THEN /\ AddReturned(last') = <<"False", 0>>
                       /\ gui'[w] = gui[w]
                  ELSE /\ AddReturned(last') = <<"True", 0>>
                       /\ Len(gui'[w].toolbar) = Len(gui[w].toolbar) + 1
                       /\ SubSeq(gui'[w].toolbar, 1, Len(gui[w].toolbar)) = gui[w].toolbar
                       /\ LET button == gui'[w].toolbar[Len(gui'[w].toolbar)]
                          IN /\ gui'[w].tools = gui[w].tools \cup {button.tool_name}
                             /\ ImageNotLocated(last') => button.img = "Metal_Object.png"
      ]_vars

---------------------------------------------------------------------------
(* C12 *)

\* C12: a create callback first shows the creation dialog of the class of
\* one of the toolbar's buttons.  When the dialog is accepted and the entered
\* name is not empty, it constructs exactly one object, of that class, with
\* the entered name, on the circuit the window holds when the button is
\* clicked, and refresh_all runs after it iff the constructor returned.
\* When the dialog is rejected or the name is empty it makes no further call
\* and leaves the window as it was.
C12_CreateOnlyWhenAcceptedAndNamed ==
    [][last'.op = "create_metal_obj"
         => LET w == last'.win
                t == last'.trace
                metal_class == t[1].arg[1]
                params == t[2].arg
            IN /\ t[1].fn = "Dialog_create_metal"
               /\ t[2].fn = "Dialog_create_metal.get_params"
               /\ \E i \in 1..Len(gui[w].toolbar) :
                      gui[w].toolbar[i].metal_class = metal_class
               /\ IF params[1] = "accepted" /\ params[2] # 0
                  THEN /\ Count(t, "metal_class") = 1
                       /\ t[3] = EvOn("metal_class", <<metal_class, params[2]>>, gui[w].circ)
                       /\ RefreshedAfter(t, 3) <=> Returned(last', "metal_class")
                  ELSE /\ Len(t) = 2
                       /\ gui'[w] = gui[w]
      ]_vars

\* a button added after construction was clicked, the dialog accepted with a
\* name, and an object of its class constructed on the window's circuit and
\* the panels refreshed
C12_Witness ==
    /\ last.op = "create_metal_obj"
    /\ last.trace[2].arg[1] = "accepted"
    /\ last.trace[2].arg[2] # 0
    /\ Len(Win(last).toolbar) > Len(CREATE_METAL_CLASSES)
    /\ last.trace[3] = EvOn("metal_class", <<"Metal_Qubit", last.trace[2].arg[2]>>,
                            Win(last).circ)
    /\ Returned(last, "metal_class")
    /\ RefreshedAfter(last.trace, 3)

---------------------------------------------------------------------------
(* C13 *)

\* C13: in every state of an open window each tree shows the mapping the
\* window holds: the object tree OBJECTS, the default-options tree
\* DEFAULT_OPTIONS, the circuit-properties tree the params of circ.  From
\* every such state set_OBJECTS(None) leaves the window holding the current
\* circuit's OBJECTS and set_DEFAULT_OPTIONS(None) the process-wide
\* DEFAULT_OPTIONS, a mapping that is given is the one held afterwards, and
\* change_circ leaves DEFAULT_OPTIONS and the default-options tree as they
\* were and makes no call on that tree's content.
C13_TreesShowTheHeldMappings ==
    \A w \in Windows :
        IsOpen(w) =>
            LET g == gui[w]
            IN /\ g.tree = g.OBJECTS
               /\ g.tree_def_ops = g.DEFAULT_OPTIONS
               /\ g.tree_circ_ops = CircParams(g.circ)
               /\ set_OBJECTS(g, None).g.OBJECTS = CircOBJECTS(g.circ)
               /\ set_DEFAULT_OPTIONS(g, None).g.DEFAULT_OPTIONS = GlobalDefaultOptions
               /\ \A d \in Dicts :
                      /\ set_OBJECTS(g, d).g.OBJECTS = d
                      /\ set_DEFAULT_OPTIONS(g, d).g.DEFAULT_OPTIONS = d
               /\ \A circ \in Circuits, F \in RefreshFaultSets :
                      LET r == change_circ(g, circ, F)
                      IN /\ r.g.DEFAULT_OPTIONS = g.DEFAULT_OPTIONS
                         /\ r.g.tree_def_ops = g.tree_def_ops
                         /\ ~Has(r.trace, "tree_def_ops.change_content_dict")

\* change_circ ran on a window that holds a DEFAULT_OPTIONS mapping of its
\* own: the object tree and the circuit-properties tree show the new
\* circuit's mappings, the default-options tree still that mapping
C13_Witness ==
    /\ last.op = "change_circ"
    /\ Win(last).DEFAULT_OPTIONS \in Dicts
    /\ Win(last).tree_def_ops \in Dicts
    /\ Win(last).tree = CircOBJECTS(Win(last).circ)
    /\ Win(last).tree_circ_ops = CircParams(Win(last).circ)
    /\ Has(last.trace, "tree.change_content_dict")

====
